---- MODULE Spec2Model ----
(***************************************************************************)
(* Model of rosidl_generator_cs/__init__.py: the C# type and value         *)
(* mapping functions of the generator.  Every function of the module is a  *)
(* pure function of its arguments (and of the module flag USE_UNITY_TYPES);*)
(* the state records the last call made and what it returned or raised.    *)
(*                                                                         *)
(* Text produced by the type functions is a TLA+ string.  Text produced by *)
(* the value functions is a sequence of one-character strings, so that     *)
(* escaping and the reading back of a literal work character by character. *)
(* Python ints are unbounded: an int is a sign and its decimal digits.     *)
(***************************************************************************)
EXTENDS Integers, Sequences, FiniteSets, TLC

VARIABLES fn, type_, value, ret, USE_UNITY_TYPES

vars == <<fn, type_, value, ret, USE_UNITY_TYPES>>

(***************************************************************************)
(* Bounds of the enumerated inputs.                                        *)
(***************************************************************************)
MaxLen == 2        \* longest value list handed to value_to_cs
MaxStrLen == 2     \* longest string value
MaxSize == 2       \* largest declared array size / sequence bound

(***************************************************************************)
(* Python values.                                                          *)
(***************************************************************************)
PyValue(tag, b, digits, frac, chars, items) ==
    [tag |-> tag, b |-> b, digits |-> digits, frac |-> frac,
     chars |-> chars, items |-> items]

PyNone == PyValue("None", FALSE, <<>>, <<>>, <<>>, <<>>)
PyBool(b) == PyValue("bool", b, <<>>, <<>>, <<>>, <<>>)
\* an int: b is the sign (TRUE = negative), digits the decimal magnitude
PyInt(neg, digits) == PyValue("int", neg, digits, <<>>, <<>>, <<>>)
\* a float whose repr is positional: digits "." frac
PyFloat(neg, digits, frac) == PyValue("float", neg, digits, frac, <<>>, <<>>)
PyStr(chars) == PyValue("str", FALSE, <<>>, <<>>, chars, <<>>)
PyList(items) == PyValue("list", FALSE, <<>>, <<>>, <<>>, items)

DigitChar == <<"0", "1", "2", "3", "4", "5", "6", "7", "8", "9">>

RECURSIVE DigitsText(_)
DigitsText(ds) ==
    IF ds = <<>> THEN <<>> ELSE <<DigitChar[Head(ds) + 1]>> \o DigitsText(Tail(ds))

IsZeroDigits(ds) == \A i \in 1..Len(ds) : ds[i] = 0

\* magnitude + 1 on decimal digits
RECURSIVE IncDigits(_)
IncDigits(ds) ==
    IF ds = <<>> THEN <<1>>
    ELSE IF ds[Len(ds)] < 9
         THEN SubSeq(ds, 1, Len(ds) - 1) \o <<ds[Len(ds)] + 1>>
         ELSE IncDigits(SubSeq(ds, 1, Len(ds) - 1)) \o <<0>>

\* magnitude - 1 on decimal digits (magnitude > 0), leading zero dropped
RECURSIVE DecDigitsRaw(_)
DecDigitsRaw(ds) ==
    IF ds[Len(ds)] > 0
    THEN SubSeq(ds, 1, Len(ds) - 1) \o <<ds[Len(ds)] - 1>>
    ELSE DecDigitsRaw(SubSeq(ds, 1, Len(ds) - 1)) \o <<9>>

DecDigits(ds) ==
    LET r == DecDigitsRaw(ds)
    IN  IF Len(r) > 1 /\ r[1] = 0 THEN Tail(r) ELSE r

\* value + 1 on a Python int, or on a float that holds a whole number
IntPlusOne(v) ==
    LET m == IF v.b THEN DecDigits(v.digits) ELSE IncDigits(v.digits)
    IN  [v EXCEPT !.b = v.b /\ ~IsZeroDigits(m), !.digits = m]

\* str(value), which is also what '%s' % value and '{0}'.format(value) give
py_str(v) ==
    CASE v.tag = "int" -> (IF v.b THEN <<"-">> ELSE <<>>) \o DigitsText(v.digits)
      [] v.tag = "float" ->
            (IF v.b THEN <<"-">> ELSE <<>>) \o DigitsText(v.digits)
                \o <<".">> \o DigitsText(v.frac)
      [] v.tag = "bool" -> IF v.b THEN <<"T", "r", "u", "e">>
                                  ELSE <<"F", "a", "l", "s", "e">>
      [] v.tag = "str" -> v.chars
      [] OTHER -> <<"N", "o", "n", "e">>

\* truth value of a Python value
py_truth(v) ==
    CASE v.tag = "bool" -> v.b
      [] v.tag = "int" -> ~IsZeroDigits(v.digits)
      [] v.tag = "float" -> ~(IsZeroDigits(v.digits) /\ IsZeroDigits(v.frac))
      [] v.tag = "str" -> v.chars # <<>>
      [] v.tag = "list" -> v.items # <<>>
      [] OTHER -> FALSE

\* c == value for an int constant c
py_eq_int(c, v) ==
    CASE v.tag = "int" -> v = c
      [] v.tag = "float" ->
            v.b = c.b /\ v.digits = c.digits /\ IsZeroDigits(v.frac)
      [] v.tag = "bool" ->
            c = PyInt(FALSE, IF v.b THEN <<1>> ELSE <<0>>)
      [] OTHER -> FALSE

INT32_MIN == PyInt(TRUE, <<2, 1, 4, 7, 4, 8, 3, 6, 4, 8>>)
INT64_MIN ==
    PyInt(TRUE, <<9, 2, 2, 3, 3, 7, 2, 0, 3, 6, 8, 5, 4, 7, 7, 5, 8, 0, 8>>)

(***************************************************************************)
(* What a call gives: a text, or the exception it raised.                  *)
(***************************************************************************)
Return(text) == [ok |-> TRUE, text |-> text, err |-> ""]
RaiseStr(err) == [ok |-> FALSE, text |-> "", err |-> err]
Raise(err) == [ok |-> FALSE, text |-> <<>>, err |-> err]

(***************************************************************************)
(* Schema types (rosidl_parser.definition), as the isinstance tests of the *)
(* module see them.  value_type holds the element type of a nested type    *)
(* (a sequence of length one), size its declared size or maximum size.     *)
(***************************************************************************)
SchemaType(cls, typename, namespaced_name, value_type, size) ==
    [cls |-> cls, typename |-> typename, namespaced_name |-> namespaced_name,
     value_type |-> value_type, size |-> size]

NoType == SchemaType("", "", <<>>, <<>>, 0)
BasicType(typename) == SchemaType("BasicType", typename, <<>>, <<>>, 0)
UnboundedString == SchemaType("UnboundedString", "", <<>>, <<>>, 0)
BoundedString == SchemaType("BoundedString", "", <<>>, <<>>, 0)
UnboundedWString == SchemaType("UnboundedWString", "", <<>>, <<>>, 0)
BoundedWString == SchemaType("BoundedWString", "", <<>>, <<>>, 0)
NamespacedType(names) == SchemaType("NamespacedType", "", names, <<>>, 0)
Array(elem, size) == SchemaType("Array", "", <<>>, <<elem>>, size)
BoundedSequence(elem, size) ==
    SchemaType("BoundedSequence", "", <<>>, <<elem>>, size)
UnboundedSequence(elem) == SchemaType("UnboundedSequence", "", <<>>, <<elem>>, 0)

IsBasicType(t) == t.cls = "BasicType"
IsAbstractString(t) == t.cls \in {"UnboundedString", "BoundedString"}
IsAbstractWString(t) == t.cls \in {"UnboundedWString", "BoundedWString"}
IsAbstractGenericString(t) == IsAbstractString(t) \/ IsAbstractWString(t)
IsNamespacedType(t) == t.cls = "NamespacedType"
IsUnboundedSequence(t) == t.cls = "UnboundedSequence"
IsBoundedSequence(t) == t.cls = "BoundedSequence"
IsArray(t) == t.cls = "Array"
IsAbstractNestedType(t) ==
    IsArray(t) \/ IsBoundedSequence(t) \/ IsUnboundedSequence(t)

FLOATING_POINT_TYPES == {"float", "double", "long double"}

(***************************************************************************)
(* The two tables.                                                         *)
(***************************************************************************)
MSG_TYPE_TO_CS ==
    [byte |-> "sbyte", octet |-> "sbyte", char |-> "byte", bool |-> "bool",
     boolean |-> "bool", uint8 |-> "byte", int8 |-> "sbyte",
     uint16 |-> "System.UInt16", int16 |-> "System.Int16",
     uint32 |-> "System.UInt32", int32 |-> "System.Int32",
     uint64 |-> "System.UInt64", int64 |-> "System.Int64",
     float |-> "float", float32 |-> "float", float64 |-> "double",
     double |-> "double", string |-> "string",
     time |-> "ROSBridgeLib.msg_helpers.Time",
     duration |-> "ROSBridgeLib.msg_helpers.Duration"]

MSG_TO_UNITY ==
    ("geometry_msgs.msg.Point" :> "UnityEngine.Vector3")
    @@ ("geometry_msgs.msg.Vector3" :> "UnityEngine.Vector3")
    @@ ("geometry_msgs.msg.Quaternion" :> "UnityEngine.Quaternion")

\* MSG_TYPE_TO_CS[key], a KeyError when the key is missing
Lookup(key) ==
    IF key \in DOMAIN MSG_TYPE_TO_CS THEN Return(MSG_TYPE_TO_CS[key])
    ELSE RaiseStr("KeyError")

\* '.'.join(names)
RECURSIVE DotJoin(_)
DotJoin(names) ==
    IF names = <<>> THEN ""
    ELSE IF Len(names) = 1 THEN names[1]
    ELSE names[1] \o "." \o DotJoin(Tail(names))

(***************************************************************************)
(* msg_type_only_to_cs, msg_type_to_cs                                     *)
(***************************************************************************)
\* a plausible slip: the flag is not consulted
msg_type_only_to_cs_IgnoresFlag(t0) ==
    LET t == IF IsAbstractNestedType(t0) THEN t0.value_type[1] ELSE t0
        cs_type ==
            IF IsBasicType(t) THEN Lookup(t.typename)
            ELSE IF IsAbstractString(t) THEN Lookup("string")
            ELSE IF IsAbstractWString(t) THEN Lookup("wstring")
            ELSE IF IsNamespacedType(t) THEN Return(DotJoin(t.namespaced_name))
            ELSE RaiseStr("AssertionError")
    IN  IF ~cs_type.ok THEN cs_type
        ELSE IF cs_type.text \in DOMAIN MSG_TO_UNITY
             THEN Return(MSG_TO_UNITY[cs_type.text])
             ELSE cs_type

msg_type_only_to_cs(t0) ==
    LET t == IF IsAbstractNestedType(t0) THEN t0.value_type[1] ELSE t0
        cs_type ==
            IF IsBasicType(t) THEN Lookup(t.typename)
            ELSE IF IsAbstractString(t) THEN Lookup("string")
            ELSE IF IsAbstractWString(t) THEN Lookup("wstring")
            ELSE IF IsNamespacedType(t) THEN Return(DotJoin(t.namespaced_name))
            ELSE RaiseStr("AssertionError")
    IN  IF ~cs_type.ok THEN cs_type
        ELSE IF USE_UNITY_TYPES /\ cs_type.text \in DOMAIN MSG_TO_UNITY
             THEN Return(MSG_TO_UNITY[cs_type.text])
             ELSE cs_type

\* a plausible slip: the commented-out size is written into the array type
msg_type_to_cs_SizedArray(t) ==
    LET cs_type == msg_type_only_to_cs(t)
    IN  IF ~cs_type.ok THEN cs_type
        ELSE IF IsAbstractNestedType(t)
             THEN IF IsUnboundedSequence(t) \/ IsBoundedSequence(t)
                  THEN Return("System.Collections.Generic.List<" \o cs_type.text \o "> ")
                  ELSE Return(cs_type.text \o "[" \o DigitChar[t.size + 1] \o "] ")
             ELSE cs_type

msg_type_to_cs(t) ==
    LET cs_type == msg_type_only_to_cs(t)
    IN  IF ~cs_type.ok THEN cs_type
        ELSE IF IsAbstractNestedType(t)
             THEN IF IsUnboundedSequence(t)
                  THEN Return("System.Collections.Generic.List<" \o cs_type.text \o "> ")
                  ELSE IF IsBoundedSequence(t)
                  THEN Return("System.Collections.Generic.List<" \o cs_type.text \o "> ")
                  ELSE Return(cs_type.text \o "[] ")
             ELSE cs_type

(***************************************************************************)
(* escape_string, escape_wstring                                           *)
(***************************************************************************)
\* chars.replace(old, new) for a one-character old
RECURSIVE Replace(_, _, _)
Replace(chars, old, new) ==
    IF chars = <<>> THEN <<>>
    ELSE (IF Head(chars) = old THEN new ELSE <<Head(chars)>>)
             \o Replace(Tail(chars), old, new)

\* a plausible slip: the two replacements in the other order
escape_string_QuoteFirst(s) ==
    IF s.tag # "str" THEN Raise("AttributeError")
    ELSE Return(Replace(Replace(s.chars, "\"", <<"\\", "\"">>), "\\", <<"\\", "\\">>))

escape_string(s) ==
    IF s.tag # "str" THEN Raise("AttributeError")
    ELSE Return(Replace(Replace(s.chars, "\\", <<"\\", "\\">>), "\"", <<"\\", "\"">>))

escape_wstring(s) == escape_string(s)

(***************************************************************************)
(* primitive_value_to_cs                                                   *)
(***************************************************************************)
\* '"%s"' % escape_string(value), 'u"%s"' % escape_wstring(value)
QuotedString(v) ==
    LET e == escape_string(v)
    IN  IF ~e.ok THEN e ELSE Return(<<"\"">> \o e.text \o <<"\"">>)

QuotedWString(v) ==
    LET e == escape_wstring(v)
    IN  IF ~e.ok THEN e ELSE Return(<<"u", "\"">> \o e.text \o <<"\"">>)

Int32Literal(v) ==
    IF py_eq_int(INT32_MIN, v)
    THEN Return(<<"(">> \o py_str(IntPlusOne(v)) \o <<" ", "-", " ", "1", ")">>)
    ELSE Return(py_str(v))

\* a plausible slip: the suffix is put on the whole expression
Int64Literal_SuffixOutside(v) ==
    IF py_eq_int(INT64_MIN, v)
    THEN Return(<<"(">> \o py_str(IntPlusOne(v))
                    \o <<" ", "-", " ", "1", ")", "L">>)
    ELSE Return(py_str(v) \o <<"L">>)

Int64Literal(v) ==
    IF py_eq_int(INT64_MIN, v)
    THEN Return(<<"(">> \o py_str(IntPlusOne(v))
                    \o <<"L", " ", "-", " ", "1", ")">>)
    ELSE Return(py_str(v) \o <<"L">>)

PlainKinds ==
    {"short", "unsigned short", "char", "wchar", "double", "long double",
     "octet", "int8", "uint8", "int16", "uint16"}

primitive_value_to_cs(t, v) ==
    IF ~(IsBasicType(t) \/ IsAbstractGenericString(t)) THEN Raise("AssertionError")
    ELSE IF v = PyNone THEN Raise("AssertionError")
    ELSE IF IsAbstractString(t) THEN QuotedString(v)
    ELSE IF IsAbstractWString(t) THEN QuotedWString(v)
    ELSE IF IsAbstractGenericString(t) THEN QuotedString(v)
    ELSE IF t.typename = "boolean"
         THEN Return(IF py_truth(v) THEN <<"t", "r", "u", "e">>
                                    ELSE <<"f", "a", "l", "s", "e">>)
    ELSE IF t.typename \in PlainKinds THEN Return(py_str(v))
    ELSE IF t.typename = "int32" THEN Int32Literal(v)
    ELSE IF t.typename = "uint32" THEN Return(py_str(v))
    ELSE IF t.typename = "int64" THEN Int64Literal(v)
    ELSE IF t.typename = "uint64" THEN Return(py_str(v) \o <<"U", "L">>)
    ELSE IF t.typename = "float" THEN Return(py_str(v) \o <<"f">>)
    ELSE IF t.typename = "string" THEN Return(<<"\"">> \o py_str(v) \o <<"\"">>)
    ELSE Raise("AssertionError")

(***************************************************************************)
(* value_to_cs                                                             *)
(***************************************************************************)
\* the elements a for loop over value visits; a str is visited by character
IsIterable(v) == v.tag \in {"list", "str"}
Iterate(v) ==
    IF v.tag = "list" THEN v.items
    ELSE [i \in 1..Len(v.chars) |-> PyStr(<<v.chars[i]>>)]

\* ', '.join(texts)
RECURSIVE CommaJoin(_)
CommaJoin(texts) ==
    IF texts = <<>> THEN <<>>
    ELSE IF Len(texts) = 1 THEN texts[1]
    ELSE texts[1] \o <<",", " ">> \o CommaJoin(Tail(texts))

Braced(text) == <<"{">> \o text \o <<"}">>

\* a plausible slip: the length test of the second wrap is left out
WrapContainer_AlwaysTwice(cs_values, is_string_array) ==
    LET cs_value == Braced(CommaJoin(cs_values))
    IN  IF ~is_string_array THEN Braced(cs_value) ELSE cs_value

\* the joined elements in one brace pair, and in a second one if there is
\* more than one element and they are not strings
WrapContainer(cs_values, is_string_array) ==
    LET cs_value == Braced(CommaJoin(cs_values))
    IN  IF Len(cs_values) > 1 /\ ~is_string_array THEN Braced(cs_value)
        ELSE cs_value

\* a plausible slip: an element that cannot be rendered is left out
ContainerValue_SkipsFailed(t, items) ==
    LET is_string_array == IsAbstractGenericString(t.value_type[1])
        Rendered[n \in 0..Len(items)] ==
            IF n = 0 THEN <<>>
            ELSE LET r == primitive_value_to_cs(t.value_type[1], items[n])
                 IN  IF ~r.ok THEN Rendered[n - 1]
                     ELSE Append(Rendered[n - 1],
                                 IF is_string_array THEN Braced(r.text) ELSE r.text)
    IN  Return(WrapContainer(Rendered[Len(items)], is_string_array))

\* the loop over the elements: the first element that fails ends the call
ContainerValue(t, items) ==
    LET is_string_array == IsAbstractGenericString(t.value_type[1])
        each == [i \in 1..Len(items) |->
                    primitive_value_to_cs(t.value_type[1], items[i])]
        failed == {i \in 1..Len(items) : ~each[i].ok}
        cs_values == [i \in 1..Len(items) |->
                        IF is_string_array THEN Braced(each[i].text)
                                           ELSE each[i].text]
    IN  IF failed # {}
        THEN each[CHOOSE i \in failed : \A j \in failed : i <= j]
        ELSE Return(WrapContainer(cs_values, is_string_array))

value_to_cs(t, v) ==
    IF IsNamespacedType(t) THEN Raise("AssertionError")
    ELSE IF v = PyNone THEN Raise("AssertionError")
    ELSE IF ~IsAbstractNestedType(t) THEN primitive_value_to_cs(t, v)
    ELSE IF ~IsIterable(v) THEN Raise("TypeError")
    ELSE ContainerValue(t, Iterate(v))

(***************************************************************************)
(* default_value_from_type: returns a Python value, a str or the int 0     *)
(***************************************************************************)
\* a plausible slip: a nested type is looked through to its element type, as
\* msg_type_only_to_cs does
default_value_from_type_OfElement(t0) ==
    LET t == IF IsAbstractNestedType(t0) THEN t0.value_type[1] ELSE t0
    IN  IF IsAbstractGenericString(t) THEN PyStr(<<"\"", "\"">>)
        ELSE IF IsBasicType(t) /\ t.typename \in FLOATING_POINT_TYPES
             THEN PyStr(<<"0", ".", "0", "f">>)
        ELSE IF IsBasicType(t) /\ t.typename = "boolean"
             THEN PyStr(<<"f", "a", "l", "s", "e">>)
        ELSE PyInt(FALSE, <<0>>)

default_value_from_type(t) ==
    IF IsAbstractGenericString(t) THEN PyStr(<<"\"", "\"">>)
    ELSE IF IsBasicType(t) /\ t.typename \in FLOATING_POINT_TYPES
         THEN PyStr(<<"0", ".", "0", "f">>)
    ELSE IF IsBasicType(t) /\ t.typename = "boolean"
         THEN PyStr(<<"f", "a", "l", "s", "e">>)
    ELSE PyInt(FALSE, <<0>>)

(***************************************************************************)
(* The inputs the calls are made with.                                     *)
(***************************************************************************)
BasicTypeNames == DOMAIN MSG_TYPE_TO_CS \cup PlainKinds \cup FLOATING_POINT_TYPES

NamespacedNames ==
    {<<"geometry_msgs", "msg", "Point">>, <<"geometry_msgs", "msg", "Vector3">>,
     <<"geometry_msgs", "msg", "Quaternion">>, <<"geometry_msgs", "msg", "Pose">>,
     <<"std_msgs", "msg", "Header">>}

ScalarTypes ==
    {BasicType(n) : n \in BasicTypeNames}
        \cup {UnboundedString, BoundedString, UnboundedWString, BoundedWString}
        \cup {NamespacedType(n) : n \in NamespacedNames}

\* a nested type holds a scalar type: nested types do not nest
NestedTypes ==
    {Array(e, n) : e \in ScalarTypes, n \in 1..MaxSize}
        \cup {BoundedSequence(e, n) : e \in ScalarTypes, n \in 1..MaxSize}
        \cup {UnboundedSequence(e) : e \in ScalarTypes}

Types == ScalarTypes \cup NestedTypes

Chars == {"a", "b", "\\", "\""}
Strings == UNION {[1..n -> Chars] : n \in 0..MaxStrLen}

IntValues ==
    {PyInt(FALSE, <<0>>), PyInt(FALSE, <<3>>), PyInt(FALSE, <<4>>),
     PyInt(TRUE, <<1>>), PyInt(FALSE, <<1, 0, 0>>),
     PyInt(TRUE, <<1, 2, 8>>), PyInt(FALSE, <<1, 2, 7>>),
     PyInt(TRUE, <<3, 2, 7, 6, 8>>), PyInt(FALSE, <<3, 2, 7, 6, 7>>),
     INT32_MIN, IntPlusOne(INT32_MIN),
     PyInt(FALSE, <<2, 1, 4, 7, 4, 8, 3, 6, 4, 7>>),
     PyInt(TRUE, <<2, 1, 4, 7, 4, 8, 3, 6, 4, 9>>),
     INT64_MIN, IntPlusOne(INT64_MIN),
     PyInt(FALSE, <<9, 2, 2, 3, 3, 7, 2, 0, 3, 6, 8, 5, 4, 7, 7, 5, 8, 0, 7>>)}

FloatValues ==
    {PyFloat(FALSE, <<1>>, <<5>>), PyFloat(TRUE, <<0>>, <<2, 5>>),
     PyFloat(FALSE, <<2>>, <<0>>), PyFloat(FALSE, <<0>>, <<0>>)}

ScalarValues ==
    IntValues \cup FloatValues \cup {PyBool(TRUE), PyBool(FALSE)}
        \cup {PyStr(s) : s \in Strings}

\* what a value list may hold (None: an element without a value)
ElemPool ==
    {PyInt(FALSE, <<3>>), PyInt(FALSE, <<4>>), INT32_MIN,
     PyStr(<<"a">>), PyStr(<<"b">>), PyNone}

ListValues == {PyList(s) : s \in UNION {[1..n -> ElemPool] : n \in 0..MaxLen}}

\* a scalar type comes with a scalar, a nested type with a list; either may
\* come with None, and a nested type with a scalar by mistake
ValuesFor(t) ==
    IF IsAbstractNestedType(t) THEN ListValues \cup ScalarValues \cup {PyNone}
    ELSE ScalarValues \cup {PyNone}

(***************************************************************************)
(* The calls.                                                              *)
(***************************************************************************)
\* A call is made when no call is in progress; Done hands the result to the
\* caller, after which the next call can be made.
Do_msg_type_only_to_cs ==
    /\ fn = ""
    /\ \E t \in Types :
        /\ type_' = t
        /\ ret' = msg_type_only_to_cs(t)
    /\ fn' = "msg_type_only_to_cs"
    /\ value' = PyNone
    /\ UNCHANGED USE_UNITY_TYPES

Do_msg_type_to_cs ==
    /\ fn = ""
    /\ \E t \in Types :
        /\ type_' = t
        /\ ret' = msg_type_to_cs(t)
    /\ fn' = "msg_type_to_cs"
    /\ value' = PyNone
    /\ UNCHANGED USE_UNITY_TYPES

Do_value_to_cs ==
    /\ fn = ""
    /\ \E t \in Types : \E v \in ValuesFor(t) :
        /\ type_' = t
        /\ value' = v
        /\ ret' = value_to_cs(t, v)
    /\ fn' = "value_to_cs"
    /\ UNCHANGED USE_UNITY_TYPES

Do_primitive_value_to_cs ==
    /\ fn = ""
    /\ \E t \in Types : \E v \in ScalarValues \cup {PyNone} :
        /\ type_' = t
        /\ value' = v
        /\ ret' = primitive_value_to_cs(t, v)
    /\ fn' = "primitive_value_to_cs"
    /\ UNCHANGED USE_UNITY_TYPES

Do_default_value_from_type ==
    /\ fn = ""
    /\ \E t \in Types :
        /\ type_' = t
        /\ ret' = default_value_from_type(t)
    /\ fn' = "default_value_from_type"
    /\ value' = PyNone
    /\ UNCHANGED USE_UNITY_TYPES

Do_escape_string ==
    /\ fn = ""
    /\ \E s \in Strings :
        /\ value' = PyStr(s)
        /\ ret' = escape_string(PyStr(s))
    /\ fn' = "escape_string"
    /\ type_' = NoType
    /\ UNCHANGED USE_UNITY_TYPES

Do_escape_wstring ==
    /\ fn = ""
    /\ \E s \in Strings :
        /\ value' = PyStr(s)
        /\ ret' = escape_wstring(PyStr(s))
    /\ fn' = "escape_wstring"
    /\ type_' = NoType
    /\ UNCHANGED USE_UNITY_TYPES

Done ==
    /\ fn # ""
    /\ fn' = ""
    /\ type_' = NoType
    /\ value' = PyNone
    /\ ret' = Raise("")
    /\ UNCHANGED USE_UNITY_TYPES

\* No call has been made.  The flag is set once, at import: the module as
\* written sets it True, a build that turns the substitution off sets it False.
Init ==
    /\ fn = ""
    /\ type_ = NoType
    /\ value = PyNone
    /\ ret = Raise("")
    /\ USE_UNITY_TYPES \in BOOLEAN

Next ==
    \/ Do_msg_type_only_to_cs
    \/ Do_msg_type_to_cs
    \/ Do_value_to_cs
    \/ Do_primitive_value_to_cs
    \/ Do_default_value_from_type
    \/ Do_escape_string
    \/ Do_escape_wstring
    \/ Done

Spec == Init /\ [][Next]_vars

(***************************************************************************)
(* Reading a rendered literal back, by the C# literal grammar: what value  *)
(* the text denotes.  PyNone when the text is no literal of these forms.   *)
(***************************************************************************)
StartsWith(cs, p) == Len(cs) >= Len(p) /\ SubSeq(cs, 1, Len(p)) = p
EndsWith(cs, p) == Len(cs) >= Len(p) /\ SubSeq(cs, Len(cs) - Len(p) + 1, Len(cs)) = p
DropFirst(cs, n) == SubSeq(cs, n + 1, Len(cs))
DropLast(cs, n) == SubSeq(cs, 1, Len(cs) - n)

IsDigits(cs) ==
    /\ cs # <<>>
    /\ \A i \in 1..Len(cs) : \E d \in 0..9 : DigitChar[d + 1] = cs[i]
    /\ (Len(cs) > 1 => cs[1] # "0")

ReadDigits(cs) == [i \in 1..Len(cs) |-> CHOOSE d \in 0..9 : DigitChar[d + 1] = cs[i]]

ReadSigned(cs) ==
    LET neg == StartsWith(cs, <<"-">>)
        mag == IF neg THEN Tail(cs) ELSE cs
    IN  IF IsDigits(mag) /\ ~(neg /\ mag = <<"0">>)
        THEN PyInt(neg, ReadDigits(mag)) ELSE PyNone

\* an integer literal with its optional L or UL suffix
ReadIntTerm(cs) ==
    IF EndsWith(cs, <<"U", "L">>) THEN ReadSigned(DropLast(cs, 2))
    ELSE IF EndsWith(cs, <<"L">>) THEN ReadSigned(DropLast(cs, 1))
    ELSE ReadSigned(cs)

IntMinusOne(v) ==
    IF v.tag # "int" THEN PyNone
    ELSE IF v.b THEN PyInt(TRUE, IncDigits(v.digits))
    ELSE IF IsZeroDigits(v.digits) THEN PyInt(TRUE, <<1>>)
    ELSE PyInt(FALSE, DecDigits(v.digits))

\* digits "." digits with an optional f suffix
ReadFloat(cs) ==
    LET body == IF EndsWith(cs, <<"f">>) THEN DropLast(cs, 1) ELSE cs
        neg == StartsWith(body, <<"-">>)
        mag == IF neg THEN Tail(body) ELSE body
        dots == {i \in 1..Len(mag) : mag[i] = "."}
    IN  IF Cardinality(dots) # 1 THEN PyNone
        ELSE LET d == CHOOSE i \in dots : TRUE
                 whole == SubSeq(mag, 1, d - 1)
                 frac == SubSeq(mag, d + 1, Len(mag))
             IN  IF IsDigits(whole) /\ frac # <<>>
                    /\ \A i \in 1..Len(frac) : \E k \in 0..9 : DigitChar[k + 1] = frac[i]
                 THEN PyFloat(neg, ReadDigits(whole), ReadDigits(frac))
                 ELSE PyNone

\* the characters a string literal's body stands for; <<"?">> marks a body that
\* is no string body (a bare quote, a trailing backslash)
RECURSIVE Unescape(_)
Unescape(cs) ==
    IF cs = <<>> THEN <<>>
    ELSE IF cs[1] = "\\"
         THEN IF Len(cs) >= 2 /\ cs[2] \in {"\\", "\""}
              THEN <<cs[2]>> \o Unescape(DropFirst(cs, 2))
              ELSE <<"?", "?">>
    ELSE IF cs[1] = "\"" THEN <<"?", "?">>
    ELSE <<cs[1]>> \o Unescape(Tail(cs))

ReadString(cs) ==
    IF Len(cs) >= 2 /\ cs[1] = "\"" /\ cs[Len(cs)] = "\""
    THEN PyStr(Unescape(SubSeq(cs, 2, Len(cs) - 1)))
    ELSE PyNone

Denotes(cs) ==
    IF cs = <<"t", "r", "u", "e">> THEN PyBool(TRUE)
    ELSE IF cs = <<"f", "a", "l", "s", "e">> THEN PyBool(FALSE)
    ELSE IF StartsWith(cs, <<"\"">>) THEN ReadString(cs)
    ELSE IF StartsWith(cs, <<"u", "\"">>) THEN ReadString(Tail(cs))
    ELSE IF StartsWith(cs, <<"(">>) /\ EndsWith(cs, <<" ", "-", " ", "1", ")">>)
         THEN IntMinusOne(ReadIntTerm(SubSeq(cs, 2, Len(cs) - 5)))
    ELSE IF \E i \in 1..Len(cs) : cs[i] = "." THEN ReadFloat(cs)
    ELSE ReadIntTerm(cs)

IsStringKind(t) ==
    t.cls \in {"UnboundedString", "BoundedString", "UnboundedWString", "BoundedWString"}
IsContainer(t) == t.cls \in {"Array", "BoundedSequence", "UnboundedSequence"}
ElementType(t) == t.value_type[1]

(***************************************************************************)
(* Claims.                                                                 *)
(***************************************************************************)
CalledValueToCs == fn = "value_to_cs"
CalledPrimitive == fn = "primitive_value_to_cs"

\* the elements of the value list, each rendered by the primitive renderer
ElementTexts(t, items) ==
    [i \in 1..Len(items) |-> primitive_value_to_cs(ElementType(t), items[i])]

\* texts joined with a comma and a space
JoinedTexts(texts) ==
    LET J[n \in 0..Len(texts)] ==
            IF n = 0 THEN <<>>
            ELSE IF n = 1 THEN texts[1]
            ELSE J[n - 1] \o <<",", " ">> \o texts[n]
    IN  J[Len(texts)]

ExpectedContainerText(t, items) ==
    LET rs == ElementTexts(t, items)
        inner == [i \in 1..Len(items) |->
                     IF IsStringKind(ElementType(t))
                     THEN <<"{">> \o rs[i].text \o <<"}">> ELSE rs[i].text]
        once == <<"{">> \o JoinedTexts(inner) \o <<"}">>
    IN  IF Len(items) > 1 /\ ~IsStringKind(ElementType(t))
        THEN <<"{">> \o once \o <<"}">> ELSE once

IntList34 == PyList(<<PyInt(FALSE, <<3>>), PyInt(FALSE, <<4>>)>>)
IntList3 == PyList(<<PyInt(FALSE, <<3>>)>>)
StrListAB == PyList(<<PyStr(<<"a">>), PyStr(<<"b">>)>>)

\* C1: value_to_cs on a container type with a list of n scalar elements that
\* the primitive renderer renders gives the elements' texts joined by ", " in
\* one brace pair, each element in a brace pair of its own iff the element
\* type is a string kind, and a second outer brace pair iff n > 1 and the
\* element type is no string kind: [3, 4] of int32 gives {{3, 4}}, [3] gives
\* {3}, ["a", "b"] of a string type gives {{"a"}, {"b"}} (of a wide string
\* type the same with each literal prefixed by u).
C1_ContainerLiteral ==
    (CalledValueToCs /\ IsContainer(type_) /\ value.tag = "list"
        /\ \A i \in 1..Len(value.items) : ElementTexts(type_, value.items)[i].ok)
    => /\ ret.ok
       /\ ret.text = ExpectedContainerText(type_, value.items)
       /\ (ElementType(type_) = BasicType("int32") /\ value = IntList34
              => ret.text = <<"{", "{", "3", ",", " ", "4", "}", "}">>)
       /\ (ElementType(type_) = BasicType("int32") /\ value = IntList3
              => ret.text = <<"{", "3", "}">>)
       /\ (ElementType(type_) \in {UnboundedString, BoundedString} /\ value = StrListAB
              => ret.text = <<"{", "{", "\"", "a", "\"", "}", ",", " ",
                              "{", "\"", "b", "\"", "}", "}">>)

C1_Witness ==
    /\ CalledValueToCs
    /\ type_ = Array(BasicType("int32"), MaxSize)
    /\ value = IntList34
    /\ ret = Return(<<"{", "{", "3", ",", " ", "4", "}", "}">>)

Int32MinText ==
    <<"(", "-", "2", "1", "4", "7", "4", "8", "3", "6", "4", "7", " ", "-", " ", "1", ")">>
Int64MinText ==
    <<"(", "-", "9", "2", "2", "3", "3", "7", "2", "0", "3", "6", "8", "5", "4", "7",
      "7", "5", "8", "0", "7", "L", " ", "-", " ", "1", ")">>

\* the plain decimal text of an int
DecimalText(v) ==
    (IF v.b THEN <<"-">> ELSE <<>>) \o [i \in 1..Len(v.digits) |-> DigitChar[v.digits[i] + 1]]

\* C2: the primitive renderer rewrites exactly the two signed minimums: int32
\* renders -2147483648 as (-2147483647 - 1) and every other int as its decimal
\* text; int64 renders -9223372036854775808 as (-9223372036854775807L - 1) and
\* every other int as its decimal text followed by L; int8 and int16 render
\* every int, their minimums included, as plain decimal text.  The rendered
\* text always denotes the input value.
C2_SignedMinimums ==
    (CalledPrimitive /\ IsBasicType(type_) /\ value.tag = "int"
        /\ type_.typename \in {"int8", "int16", "int32", "int64"})
    => /\ ret.ok
       /\ Denotes(ret.text) = value
       /\ type_.typename = "int32" =>
            ret.text = IF value = INT32_MIN THEN Int32MinText ELSE DecimalText(value)
       /\ type_.typename = "int64" =>
            ret.text = IF value = INT64_MIN THEN Int64MinText
                       ELSE DecimalText(value) \o <<"L">>
       /\ type_.typename \in {"int8", "int16"} => ret.text = DecimalText(value)

C2_Witness ==
    /\ CalledPrimitive
    /\ type_ = BasicType("int64")
    /\ value = INT64_MIN
    /\ ret = Return(Int64MinText)

CalledRenderType == fn = "msg_type_to_cs"
ListText(elem) == "System.Collections.Generic.List<" \o elem \o "> "

\* C3, as the code has it: msg_type_to_cs on an Array renders the element's
\* type text followed by "[] " and does not encode the declared size (arrays
\* of the same element type and different sizes render to the same text); a
\* BoundedSequence and an UnboundedSequence of the same element type render to
\* the same list-of-element text, the bound not encoded.
C3_SizeNotEncoded ==
    (CalledRenderType /\ IsContainer(type_) /\ msg_type_to_cs(ElementType(type_)).ok)
    => LET elem == msg_type_to_cs(ElementType(type_)).text
       IN  /\ ret.ok
           /\ type_.cls = "Array" =>
                /\ ret.text = elem \o "[] "
                /\ \A n \in 1..MaxSize :
                      msg_type_to_cs(Array(ElementType(type_), n)) = ret
           /\ type_.cls # "Array" =>
                /\ ret.text = ListText(elem)
                /\ msg_type_to_cs(UnboundedSequence(ElementType(type_))) = ret
                /\ \A n \in 1..MaxSize :
                      msg_type_to_cs(BoundedSequence(ElementType(type_), n)) = ret

C3_Witness ==
    /\ CalledRenderType
    /\ type_ = Array(BasicType("int32"), MaxSize)
    /\ ret = Return("System.Int32[] ")

\* C3 as claimed: the type text of a FixedArray carries its declared size, so
\* two arrays of the same element type and different sizes render to different
\* texts, while the two sequence kinds render alike.
C3_AsClaimed ==
    (CalledRenderType /\ IsContainer(type_) /\ ret.ok)
    => /\ type_.cls = "Array" =>
            \A n \in 1..MaxSize :
                n # type_.size =>
                    msg_type_to_cs(Array(ElementType(type_), n)).text # ret.text
       /\ type_.cls # "Array" =>
            msg_type_to_cs(UnboundedSequence(ElementType(type_))) = ret

\* C4: msg_type_to_cs is total on scalar types: for every primitive kind of
\* the table, for a string and for a wide string it returns the table's
\* non-empty entry for the kind (the wide string's under its own key) and does
\* not end in a lookup failure.
C4_TotalOnScalars ==
    (CalledRenderType
        /\ \/ IsBasicType(type_) /\ type_.typename \in DOMAIN MSG_TYPE_TO_CS
           \/ IsStringKind(type_))
    => LET key == IF IsBasicType(type_) THEN type_.typename
                  ELSE IF type_.cls \in {"UnboundedString", "BoundedString"}
                       THEN "string" ELSE "wstring"
       IN  /\ ret.ok
           /\ ret.text # ""
           /\ key \in DOMAIN MSG_TYPE_TO_CS
           /\ ret.text = MSG_TYPE_TO_CS[key]

\* the namespace segments and the name, joined by dots
QualifiedName(names) ==
    LET J[n \in 1..Len(names)] ==
            IF n = 1 THEN names[1] ELSE J[n - 1] \o "." \o names[n]
    IN  J[Len(names)]

\* C5: with USE_UNITY_TYPES enabled a named type whose dot-joined name is a
\* key of MSG_TO_UNITY renders as the mapped native type; with the flag
\* disabled it renders as its dot-joined name; a named type whose name is no
\* key renders as its dot-joined name under both settings.
C5_FriendlySubstitution ==
    (fn \in {"msg_type_to_cs", "msg_type_only_to_cs"} /\ type_.cls = "NamespacedType")
    => LET name == QualifiedName(type_.namespaced_name)
       IN  /\ ret.ok
           /\ (USE_UNITY_TYPES /\ name \in DOMAIN MSG_TO_UNITY)
                 => ret.text = MSG_TO_UNITY[name]
           /\ ~(USE_UNITY_TYPES /\ name \in DOMAIN MSG_TO_UNITY) => ret.text = name
           /\ type_.namespaced_name = <<"geometry_msgs", "msg", "Point">> =>
                 ret.text = IF USE_UNITY_TYPES THEN "UnityEngine.Vector3"
                            ELSE "geometry_msgs.msg.Point"
           /\ type_.namespaced_name = <<"geometry_msgs", "msg", "Pose">> =>
                 ret.text = "geometry_msgs.msg.Pose"

C5_Witness ==
    /\ CalledRenderType
    /\ USE_UNITY_TYPES
    /\ type_ = NamespacedType(<<"geometry_msgs", "msg", "Point">>)
    /\ ret = Return("UnityEngine.Vector3")

\* C6: value_to_cs fails, returning no text, whenever the type is a named
\* type or the value is None; a call returns a literal or fails outright: a
\* call on a container in which an element cannot be rendered returns no
\* text, and a failed call never carries text.
C6_FailsOutright ==
    CalledValueToCs
    => /\ (type_.cls = "NamespacedType" \/ value = PyNone) => ~ret.ok
       /\ ~ret.ok => ret.text = <<>>
       /\ (IsContainer(type_) /\ value.tag = "list" /\ value # PyNone
             /\ \E i \in 1..Len(value.items) : ~ElementTexts(type_, value.items)[i].ok)
          => ~ret.ok
       /\ (ret.ok /\ IsContainer(type_) /\ value.tag = "list")
          => ret.text = ExpectedContainerText(type_, value.items)

C6_Witness ==
    /\ CalledValueToCs
    /\ type_ = UnboundedSequence(BasicType("int32"))
    /\ value = PyList(<<PyInt(FALSE, <<3>>), PyNone>>)
    /\ ~ret.ok
    /\ ret.text = <<>>

\* a representative in-range value of a primitive kind
Representative(kind) ==
    IF kind \in {"boolean", "bool"} THEN PyBool(TRUE)
    ELSE IF kind \in {"float", "float32", "float64", "double"}
         THEN PyFloat(FALSE, <<1>>, <<5>>)
    ELSE PyInt(FALSE, <<3>>)

\* C7: for every boolean, integer, char and float kind that has an entry in
\* MSG_TYPE_TO_CS and a representative value of the kind,
\* primitive_value_to_cs succeeds and the literal it returns denotes the value.
C7_MappedKindsRoundTrip ==
    (CalledPrimitive /\ IsBasicType(type_)
        /\ type_.typename \in DOMAIN MSG_TYPE_TO_CS \ {"string", "time", "duration"}
        /\ value = Representative(type_.typename))
    => /\ ret.ok
       /\ Denotes(ret.text) = value

\* the text a template writes for a returned Python value
TextOf(v) ==
    IF v.tag = "str" THEN v.chars
    ELSE (IF v.b THEN <<"-">> ELSE <<>>)
             \o [i \in 1..Len(v.digits) |-> DigitChar[v.digits[i] + 1]]

EscapedOnce(chars) ==
    LET E[n \in 0..Len(chars)] ==
            IF n = 0 THEN <<>>
            ELSE E[n - 1] \o (IF chars[n] = "\\" THEN <<"\\", "\\">>
                              ELSE IF chars[n] = "\"" THEN <<"\\", "\"">>
                              ELSE <<chars[n]>>)
    IN  E[Len(chars)]

\* C9: escape_string doubles every backslash and then puts a backslash before
\* every double quote, so that a backslash put before a quote is not doubled:
\* backslash-quote gives backslash-backslash-backslash-quote; escape_wstring
\* gives the same; the string renderer puts the escaped text between double
\* quotes, the wide string renderer with a u before them.
C9_Escaping ==
    /\ fn \in {"escape_string", "escape_wstring"} =>
          /\ ret = Return(EscapedOnce(value.chars))
          /\ value.chars = <<"\\", "\"">> => ret.text = <<"\\", "\\", "\\", "\"">>
    /\ (CalledPrimitive /\ IsStringKind(type_) /\ value.tag = "str") =>
          ret = Return((IF type_.cls \in {"UnboundedWString", "BoundedWString"}
                        THEN <<"u">> ELSE <<>>)
                       \o <<"\"">> \o EscapedOnce(value.chars) \o <<"\"">>)

C9_Witness ==
    /\ fn = "escape_string"
    /\ value = PyStr(<<"\\", "\"">>)
    /\ ret = Return(<<"\\", "\\", "\\", "\"">>)

\* C10: value_to_cs on a container whose element type is a named type never
\* returns a literal: the call fails for every value list, the empty list
\* included.
C10_NamedElementsAlwaysFail ==
    (CalledValueToCs /\ IsContainer(type_)
        /\ ElementType(type_).cls = "NamespacedType" /\ value.tag = "list")
    => ~ret.ok

====
